---- MODULE Spec2Model ----
(***************************************************************************)
(* Model of the GitHub webhook receiver, src/routes/webhook.js: one POST   *)
(* request travelling through the route handler, its two reply helpers     *)
(* (warn, fatal), the crawlerService.queue call it awaits, and the         *)
(* promise wrapper that turns a thrown error or a rejected enqueue into a  *)
(* call of next(err).                                                      *)
(*                                                                         *)
(* JavaScript values are tagged records: [t |-> "undefined"],              *)
(* [t |-> "null"], [t |-> "string", v |-> s], [t |-> "boolean", v |-> b],  *)
(* [t |-> "object", v |-> record of values], [t |-> "function", v |-> n].  *)
(***************************************************************************)
EXTENDS Integers, Sequences, FiniteSets, TLC

VARIABLES
    provider,           \* crawlerService.options.queuing.events.provider
    headers,            \* request.headers: header name -> string, absent names not in DOMAIN
    body,               \* request.body, the raw text
    pc,                 \* position of the handler
    sent,               \* responses ended so far, in order
    log,                \* logger calls so far: level and first argument
    computedSignature,  \* local of the handler (line 34)
    event,              \* local of the handler (line 39)
    result,             \* local of the handler (line 41): the Request being built
    queueCalls,         \* calls of crawlerService.queue: item and queue name
    queueState,         \* the promise returned by crawlerService.queue
    error,              \* the error thrown inside the handler, if any
    nextCalls           \* errors handed to next(err) by the wrapper

vars == <<provider, headers, body, pc, sent, log, computedSignature, event,
          result, queueCalls, queueState, error, nextCalls>>

----------------------------------------------------------------------------
(* JavaScript values *)

Undefined == [t |-> "undefined"]

Null == [t |-> "null"]

Str(s) == [t |-> "string", v |-> s]

Bool(b) == [t |-> "boolean", v |-> b]

Obj(f) == [t |-> "object", v |-> f]

Fn(n) == [t |-> "function", v |-> n]

\* ToBoolean, as used by !x, x ? a : b and x && y
Truthy(x) ==
    CASE x.t = "undefined" -> FALSE
      [] x.t = "null"      -> FALSE
      [] x.t = "string"    -> x.v # ""
      [] x.t = "boolean"   -> x.v
      [] OTHER             -> TRUE

\* o.k  may be evaluated without a TypeError
CanRead(o) == o.t \notin {"undefined", "null"}

\* o.k  for a readable o
Get(o, k) == IF o.t = "object" /\ k \in DOMAIN o.v THEN o.v[k] ELSE Undefined

\* ${x} inside a template literal
JsToString(x) ==
    CASE x.t = "undefined" -> "undefined"
      [] x.t = "null"      -> "null"
      [] x.t = "string"    -> x.v
      [] x.t = "boolean"   -> IF x.v THEN "true" ELSE "false"
      [] OTHER             -> "[object Object]"

\* JSON.stringify(x): a quoted string for a string, undefined for a function
JSONStringify(x) ==
    CASE x.t = "string"  -> Str("\"" \o x.v \o "\"")
      [] x.t = "boolean" -> Str(IF x.v THEN "true" ELSE "false")
      [] x.t = "null"    -> Str("null")
      [] OTHER           -> Undefined

\* the body written by response.end(chunk): nothing for an undefined chunk
EndBody(chunk) == IF chunk.t = "string" THEN chunk.v ELSE ""

----------------------------------------------------------------------------
(* Request inputs *)

WebhookSecret == "secret"

OrgEventsUrl == "https://api.github.com/orgs/o/events"

RepoEventsUrl == "https://api.github.com/repos/o/r/events"

BodyPublicRepo == "{\"repository\":{\"events_url\":\"https://api.github.com/repos/o/r/events\",\"private\":false}}"

BodyPrivateRepo == "{\"repository\":{\"events_url\":\"https://api.github.com/repos/o/r/events\",\"private\":true},\"organization\":{\"events_url\":\"https://api.github.com/orgs/o/events\"}}"

BodyRepoNoUrl == "{\"repository\":{\"name\":\"r\"},\"organization\":{\"events_url\":\"https://api.github.com/orgs/o/events\"}}"

BodyOrgOnly == "{\"organization\":{\"events_url\":\"https://api.github.com/orgs/o/events\"}}"

BodyNullRepo == "{\"repository\":null,\"organization\":{\"events_url\":\"https://api.github.com/orgs/o/events\"}}"

BodyNeither == "{\"zen\":\"ping\"}"

BodyNull == "null"

BodyNotJson == "not json"

Bodies == {BodyPublicRepo, BodyPrivateRepo, BodyRepoNoUrl, BodyOrgOnly,
           BodyNullRepo, BodyNeither, BodyNull, BodyNotJson}

\* crypto.createHmac('sha1', secret).update(data).digest('hex'), tabulated
\* for the secret and the bodies of the model
HmacSha1Hex(secret, data) ==
    CASE data = BodyPublicRepo  -> "470e842693ab738361805a9024dff0763c91cc3a"
      [] data = BodyPrivateRepo -> "4f6d1c40d239075210619cb6592e36256eb88b7c"
      [] data = BodyRepoNoUrl   -> "bb847fc2b8b225f4cc339cf2f61d2f9058adce5f"
      [] data = BodyOrgOnly     -> "564164e0e5f8c0b7cf0bd20708f62ec24d46261e"
      [] data = BodyNullRepo    -> "84bb6789eacb4420a2b89eb1e0649b1de36f2041"
      [] data = BodyNeither     -> "8187462a8fec932ed9036594a8717459de1cb14e"
      [] data = BodyNull        -> "546b281dfcf7e69a4dbcb6a5001929585d65c7d7"
      [] data = BodyNotJson     -> "c1ac85f659319365ae6db3cefd502724d7a39814"

\* 'sha1=' + hmac hex digest
ComputeSignature(secret, data) == "sha1=" \o HmacSha1Hex(secret, data)

\* JSON.parse(text), tabulated for the bodies of the model
JSONParse(text) ==
    CASE text = BodyPublicRepo ->
            [ok |-> TRUE, value |-> Obj([repository |->
                Obj([events_url |-> Str(RepoEventsUrl), private |-> Bool(FALSE)])])]
      [] text = BodyPrivateRepo ->
            [ok |-> TRUE, value |-> Obj([repository |->
                Obj([events_url |-> Str(RepoEventsUrl), private |-> Bool(TRUE)]),
                organization |-> Obj([events_url |-> Str(OrgEventsUrl)])])]
      [] text = BodyRepoNoUrl ->
            [ok |-> TRUE, value |-> Obj([repository |-> Obj([name |-> Str("r")]),
                organization |-> Obj([events_url |-> Str(OrgEventsUrl)])])]
      [] text = BodyOrgOnly ->
            [ok |-> TRUE, value |-> Obj([organization |->
                Obj([events_url |-> Str(OrgEventsUrl)])])]
      [] text = BodyNullRepo ->
            [ok |-> TRUE, value |-> Obj([repository |-> Null,
                organization |-> Obj([events_url |-> Str(OrgEventsUrl)])])]
      [] text = BodyNeither ->
            [ok |-> TRUE, value |-> Obj([zen |-> Str("ping")])]
      [] text = BodyNull ->
            [ok |-> TRUE, value |-> Null]
      [] OTHER ->
            [ok |-> FALSE, value |-> Undefined]

Providers == {"webhook", "amqp", "memory"}

HeaderNames == {"x-github-delivery", "x-hub-signature", "x-github-event"}

DeliveryIds == {"d1"}

EventTypes == {"", "push", "check_run", "check_suite"}

\* a signature of the right length that matches no body, and a shorter one
WrongSignature == "sha1=0000000000000000000000000000000000000000"

ShortSignature == "sha1=abc"

SignaturesFor(b) == {"", ComputeSignature(WebhookSecret, b), WrongSignature, ShortSignature}

\* times moment.utc().toISOString() may return
Times == {"2018-01-01T00:00:00.000Z", "2018-01-01T00:00:01.000Z"}

\* request.headers[name]
Header(name) == IF name \in DOMAIN headers THEN Str(headers[name]) ELSE Undefined

----------------------------------------------------------------------------
(* Helpers of the handler *)

\* new Request(type, url): the work item as constructed, with an empty context
NewRequest(type, url) == [type |-> type, url |-> url, context |-> <<>>]

\* a response as ended by response.status(s) ... response.end(chunk)
Response(status, contentType, chunk) ==
    [status |-> status, contentType |-> contentType, body |-> EndBody(chunk)]

\* response.status(200).end()
Ok == Response(200, "", Undefined)

\* warn(request, response, message): what it logs and what it replies.
\* Both uses name the function fatal, not the parameter message.
warn(message) ==
    [logged |-> Fn("fatal"),
     response |-> Response(500, "text/plain", JSONStringify(Fn("fatal")))]

\* fatal(request, response, error): what it logs and what it replies
fatal(err) ==
    [logged |-> err,
     response |-> Response(400, "text/plain", JSONStringify(err))]

WebhooksEnabledAlways(p) == TRUE

\* line 15: the provider test, negated
WebhooksEnabled(p) == p = "webhook"

HeadersMissingBoth(signature, eventType) == ~Truthy(signature) /\ ~Truthy(eventType)

\* line 23: !signature || !eventType
HeadersMissing(signature, eventType) == ~Truthy(signature) \/ ~Truthy(eventType)

IsIgnoredRunOnly(eventType) == eventType.v \in {"check_run"}

\* line 28: ['check_run', 'check_suite'].includes(eventType)
IsIgnored(eventType) == eventType.v \in {"check_run", "check_suite"}

\* crypto.timingSafeEqual(new Buffer(a), new Buffer(b)): throws when the
\* byte lengths differ, otherwise compares
TimingSafeEqual(a, b) == [throws |-> Len(a) # Len(b), equal |-> a = b]

\* line 40 throws a TypeError: event is null, or neither a repository nor a
\* readable organization is there
EventsUrlThrows(ev) ==
    \/ ~CanRead(ev)
    \/ /\ ~Truthy(Get(ev, "repository"))
       /\ ~CanRead(Get(ev, "organization"))

EventsUrlFallback(ev) ==
    IF Truthy(Get(ev, "repository")) /\ Truthy(Get(Get(ev, "repository"), "events_url"))
    THEN Get(Get(ev, "repository"), "events_url")
    ELSE Get(Get(ev, "organization"), "events_url")

\* line 40: event.repository ? event.repository.events_url : event.organization.events_url
EventsUrl(ev) ==
    IF Truthy(Get(ev, "repository"))
    THEN Get(Get(ev, "repository"), "events_url")
    ELSE Get(Get(ev, "organization"), "events_url")

IsPrivateRepoAnyRepo(ev) == Truthy(Get(ev, "repository"))

\* line 46: event.repository && event.repository.private
IsPrivateRepo(ev) ==
    Truthy(Get(ev, "repository")) /\ Truthy(Get(Get(ev, "repository"), "private"))

Logged(level, subject) == Append(log, [level |-> level, subject |-> subject])

----------------------------------------------------------------------------
(* The request and the handler *)

Init ==
    /\ provider \in Providers
    /\ body \in Bodies
    /\ \E names \in SUBSET HeaderNames :
       \E d \in DeliveryIds, s \in SignaturesFor(body), e \in EventTypes :
          headers = [h \in names |->
                        CASE h = "x-github-delivery" -> d
                          [] h = "x-hub-signature"   -> s
                          [] h = "x-github-event"    -> e]
    /\ pc = "provider"
    /\ sent = <<>>
    /\ log = <<>>
    /\ computedSignature = Undefined
    /\ event = Undefined
    /\ result = Undefined
    /\ queueCalls = <<>>
    /\ queueState = "none"
    /\ error = "none"
    /\ nextCalls = <<>>

CheckProviderNoReturn ==
    /\ pc = "provider"
    /\ IF ~WebhooksEnabled(provider)
       THEN /\ log' = Logged("warn", warn(Str("Webhooks not enabled")).logged)
            /\ sent' = Append(sent, warn(Str("Webhooks not enabled")).response)
       ELSE UNCHANGED <<log, sent>>
    /\ pc' = "headers"
    /\ UNCHANGED <<provider, headers, body, computedSignature, event, result,
                   queueCalls, queueState, error, nextCalls>>

\* lines 15-17
CheckProvider ==
    /\ pc = "provider"
    /\ IF ~WebhooksEnabled(provider)
       THEN /\ log' = Logged("warn", warn(Str("Webhooks not enabled")).logged)
            /\ sent' = Append(sent, warn(Str("Webhooks not enabled")).response)
            /\ pc' = "done"
       ELSE /\ pc' = "headers"
            /\ UNCHANGED <<log, sent>>
    /\ UNCHANGED <<provider, headers, body, computedSignature, event, result,
                   queueCalls, queueState, error, nextCalls>>

\* lines 18-25
CheckHeaders ==
    /\ pc = "headers"
    /\ LET received == Logged("verbose", Str("Received"))
           reply == fatal(Str("Missing signature or event type on GitHub webhook"))
       IN IF HeadersMissing(Header("x-hub-signature"), Header("x-github-event"))
          THEN /\ log' = Append(received, [level |-> "error", subject |-> reply.logged])
               /\ sent' = Append(sent, reply.response)
               /\ pc' = "done"
          ELSE /\ log' = received
               /\ pc' = "filter"
               /\ UNCHANGED sent
    /\ UNCHANGED <<provider, headers, body, computedSignature, event, result,
                   queueCalls, queueState, error, nextCalls>>

\* lines 27-31
FilterEvent ==
    /\ pc = "filter"
    /\ IF IsIgnored(Header("x-github-event"))
       THEN /\ log' = Logged("info", Str("Ignored"))
            /\ sent' = Append(sent, Ok)
            /\ pc' = "done"
       ELSE /\ pc' = "verify"
            /\ UNCHANGED <<log, sent>>
    /\ UNCHANGED <<provider, headers, body, computedSignature, event, result,
                   queueCalls, queueState, error, nextCalls>>

\* lines 33-38
VerifySignature ==
    /\ pc = "verify"
    /\ LET computed == ComputeSignature(WebhookSecret, body)
           cmp == TimingSafeEqual(Header("x-hub-signature").v, computed)
       IN /\ computedSignature' = Str(computed)
          /\ IF cmp.throws
             THEN /\ error' = "RangeError"
                  /\ pc' = "error"
                  /\ UNCHANGED log
             ELSE /\ log' = IF ~cmp.equal THEN Logged("info", Str("X-Hub-Signature")) ELSE log
                  /\ pc' = "parse"
                  /\ UNCHANGED error
    /\ UNCHANGED <<provider, headers, body, sent, event, result,
                   queueCalls, queueState, nextCalls>>

\* line 39
ParseBody ==
    /\ pc = "parse"
    /\ LET parsed == JSONParse(body)
       IN IF parsed.ok
          THEN /\ event' = parsed.value
               /\ pc' = "build"
               /\ UNCHANGED error
          ELSE /\ error' = "SyntaxError"
               /\ pc' = "error"
               /\ UNCHANGED event
    /\ UNCHANGED <<provider, headers, body, sent, log, computedSignature, result,
                   queueCalls, queueState, nextCalls>>

\* lines 40-48
BuildRequest ==
    /\ pc = "build"
    /\ IF EventsUrlThrows(event)
       THEN /\ error' = "TypeError"
            /\ pc' = "error"
            /\ UNCHANGED result
       ELSE /\ \E now \in Times :
               LET deliveryId == Header("x-github-delivery")
                   eventsUrl == EventsUrl(event)
                   made == NewRequest("event_trigger",
                               JsToString(eventsUrl) \o "/" \o JsToString(deliveryId))
               IN result' =
                    [type |-> made.type,
                     url |-> made.url,
                     payload |-> [body |-> event, etag |-> 1, fetchedAt |-> now,
                                  type |-> Header("x-github-event"),
                                  deliveryId |-> deliveryId],
                     requiresLock |-> FALSE,
                     context |-> IF IsPrivateRepo(event)
                                 THEN ("repoType" :> "private") @@ made.context
                                 ELSE made.context]
            /\ pc' = "queue"
            /\ UNCHANGED error
    /\ UNCHANGED <<provider, headers, body, sent, log, computedSignature, event,
                   queueCalls, queueState, nextCalls>>

CallQueueTwice ==
    /\ pc = "queue"
    /\ queueCalls' = queueCalls \o << [item |-> result, name |-> "events"],
                                      [item |-> result, name |-> "events"] >>
    /\ queueState' = "pending"
    /\ pc' = "awaiting"
    /\ UNCHANGED <<provider, headers, body, sent, log, computedSignature, event,
                   result, error, nextCalls>>

CallQueueNoYield ==
    /\ pc = "queue"
    /\ queueCalls' = Append(queueCalls, [item |-> result, name |-> "events"])
    /\ queueState' = "pending"
    /\ pc' = "respond"
    /\ UNCHANGED <<provider, headers, body, sent, log, computedSignature, event,
                   result, error, nextCalls>>

\* line 49: the call of crawlerService.queue(result, 'events') and the yield
CallQueue ==
    /\ pc = "queue"
    /\ queueCalls' = Append(queueCalls, [item |-> result, name |-> "events"])
    /\ queueState' = "pending"
    /\ pc' = "awaiting"
    /\ UNCHANGED <<provider, headers, body, sent, log, computedSignature, event,
                   result, error, nextCalls>>

\* the promise of crawlerService.queue settles and the wrapper resumes the
\* generator: after the yield when fulfilled, by throwing when rejected
QueueSettle ==
    /\ pc = "awaiting"
    /\ \E outcome \in {"fulfilled", "rejected"} :
          /\ queueState' = outcome
          /\ IF outcome = "fulfilled"
             THEN pc' = "respond" /\ UNCHANGED error
             ELSE pc' = "error" /\ error' = "QueueError"
    /\ UNCHANGED <<provider, headers, body, sent, log, computedSignature, event,
                   result, queueCalls, nextCalls>>

\* lines 50-52
Respond ==
    /\ pc = "respond"
    /\ log' = Logged("info", Str("Queued"))
    /\ sent' = Append(sent, Ok)
    /\ pc' = "done"
    /\ UNCHANGED <<provider, headers, body, computedSignature, event, result,
                   queueCalls, queueState, error, nextCalls>>

\* the wrapper hands an error thrown by the handler to next(err)
CatchNext ==
    /\ pc = "error"
    /\ nextCalls' = Append(nextCalls, error)
    /\ pc' = "failed"
    /\ UNCHANGED <<provider, headers, body, sent, log, computedSignature, event,
                   result, queueCalls, queueState, error>>

Next ==
    \/ CheckProvider
    \/ CheckHeaders
    \/ FilterEvent
    \/ VerifySignature
    \/ ParseBody
    \/ BuildRequest
    \/ CallQueue
    \/ QueueSettle
    \/ Respond
    \/ CatchNext

Spec == Init /\ [][Next]_vars

\* the handler runs to its next suspension point once started, and the
\* promise of the queue settles
FairSpec == Spec /\ WF_vars(Next)

----------------------------------------------------------------------------
(* Vocabulary of the properties *)

Statuses == [i \in 1..Len(sent) |-> sent[i].status]

Terminal == pc \in {"done", "failed"}

SignatureAbsent == "x-hub-signature" \notin DOMAIN headers

EventTypeAbsent == "x-github-event" \notin DOMAIN headers

SignaturePresent == ~SignatureAbsent /\ headers["x-hub-signature"] # ""

EventTypePresent == ~EventTypeAbsent /\ headers["x-github-event"] # ""

CheckEvent == ~EventTypeAbsent /\ headers["x-github-event"] \in {"check_run", "check_suite"}

SignatureMatches == ~SignatureAbsent /\ headers["x-hub-signature"] = ComputeSignature(WebhookSecret, body)

\* bodies that parse and carry a repository or an organization
BodiesWithOwner == {BodyPublicRepo, BodyPrivateRepo, BodyRepoNoUrl, BodyOrgOnly, BodyNullRepo}

\* the request passes the provider, header and ignore-list tests
OnQueuePath == provider = "webhook" /\ SignaturePresent /\ EventTypePresent /\ ~CheckEvent

\* the events URL each body of the model is expected to give
ExpectedEventsUrl ==
    CASE body \in {BodyPublicRepo, BodyPrivateRepo} -> RepoEventsUrl
      [] body = BodyRepoNoUrl                       -> "undefined"
      [] body \in {BodyOrgOnly, BodyNullRepo}       -> OrgEventsUrl
      [] OTHER                                      -> "none"

ExpectedDeliveryId ==
    IF "x-github-delivery" \in DOMAIN headers THEN headers["x-github-delivery"] ELSE "undefined"

----------------------------------------------------------------------------
(* Properties *)

\* C1: while the provider is not 'webhook' the request is answered with 500
\* straight from the provider test and crawlerService.queue is never called,
\* whatever the headers, signature and body are.
C1_DisabledGives500 ==
    provider # "webhook" =>
        /\ queueCalls = <<>>
        /\ queueState = "none"
        /\ pc \in {"provider", "done"}
        /\ pc = "provider" => sent = <<>>
        /\ pc = "done" => Statuses = <<500>>

\* a well-formed, correctly signed push is refused because of the provider
C1_Witness ==
    /\ provider = "amqp"
    /\ SignatureMatches
    /\ ~EventTypeAbsent /\ headers["x-github-event"] = "push"
    /\ body = BodyPublicRepo
    /\ pc = "done"
    /\ Statuses = <<500>>

\* C2 as stated: a request missing x-hub-signature or x-github-event ends
\* with a 400 response, whatever the body and the configuration are.
C2_MissingHeaderGives400Always ==
    ((SignatureAbsent \/ EventTypeAbsent) /\ Terminal) => Statuses = <<400>>

\* C2 amended: while the provider is 'webhook', a request missing
\* x-hub-signature or x-github-event is answered with 400 from the header
\* test, whatever the body is, and nothing is enqueued.
C2_MissingHeaderGives400 ==
    (provider = "webhook" /\ (SignatureAbsent \/ EventTypeAbsent)) =>
        /\ pc \in {"provider", "headers", "done"}
        /\ pc # "done" => sent = <<>>
        /\ pc = "done" => Statuses = <<400>>
        /\ queueCalls = <<>>

\* only the signature is missing, the rest of the request is a valid push
C2_Witness ==
    /\ provider = "webhook"
    /\ SignatureAbsent
    /\ ~EventTypeAbsent /\ headers["x-github-event"] = "push"
    /\ body = BodyPublicRepo
    /\ pc = "done"
    /\ Statuses = <<400>>

\* C3 as stated: a request whose x-github-event is check_run or check_suite
\* ends with a 200 response and no enqueue call, also when the signature
\* header is missing.
C3_CheckEventGives200Always ==
    (CheckEvent /\ Terminal) => (Statuses = <<200>> /\ queueCalls = <<>>)

\* C3 amended: while the provider is 'webhook', a request with a non-empty
\* x-hub-signature whose x-github-event is check_run or check_suite is
\* answered with 200 from the ignore-list test, before the signature is
\* computed, and nothing is enqueued, whether or not the signature matches.
C3_CheckEventGives200 ==
    (provider = "webhook" /\ SignaturePresent /\ CheckEvent) =>
        /\ pc \in {"provider", "headers", "filter", "done"}
        /\ pc # "done" => sent = <<>>
        /\ pc = "done" => sent = <<Ok>>
        /\ computedSignature = Undefined
        /\ queueCalls = <<>>

\* a check_suite event whose signature has the wrong length is answered 200
C3_Witness ==
    /\ provider = "webhook"
    /\ ~SignatureAbsent /\ headers["x-hub-signature"] = ShortSignature
    /\ ~EventTypeAbsent /\ headers["x-github-event"] = "check_suite"
    /\ pc = "done"
    /\ Statuses = <<200>>

\* C4: with the provider 'webhook', both headers present, an event outside
\* the ignore-list and a body that parses (and names a repository or an
\* organization), a signature that differs from the computed one, of
\* whatever length, never stops processing: unless the enqueue itself
\* fails, the request ends with one enqueue call and a 200 response.
C4_MismatchStillQueued ==
    (/\ OnQueuePath
     /\ body \in BodiesWithOwner
     /\ ~SignatureMatches
     /\ Terminal
     /\ queueState # "rejected")
    => (Statuses = <<200>> /\ Len(queueCalls) = 1)

\* C5: on the non-ignored path a response exists only once the promise of
\* crawlerService.queue is fulfilled; while it is pending nothing has been
\* written, and when it is rejected the handler writes nothing and the
\* failure goes to next(err).
C5_ResponseAfterEnqueue ==
    /\ (OnQueuePath /\ sent # <<>>) =>
          (queueState = "fulfilled" /\ Len(queueCalls) = 1 /\ Statuses = <<200>>)
    /\ queueState = "pending" => sent = <<>>
    /\ queueState = "rejected" =>
          /\ sent = <<>>
          /\ pc \in {"error", "failed"}
          /\ error = "QueueError"
          /\ pc = "failed" => nextCalls = <<"QueueError">>

\* the enqueue was fulfilled and the 200 has then been written
C5_Witness ==
    /\ OnQueuePath
    /\ queueState = "fulfilled"
    /\ pc = "done"
    /\ Statuses = <<200>>

\* C6: a request calls crawlerService.queue at most once, always under the
\* name 'events'; a 200 for a non-ignored event comes with exactly one call
\* and a 400 or 500 with none.
C6_AtMostOneEnqueue ==
    /\ Len(queueCalls) <= 1
    /\ \A i \in 1..Len(queueCalls) : queueCalls[i].name = "events"
    /\ (Statuses = <<200>> /\ ~CheckEvent) => Len(queueCalls) = 1
    /\ (\E i \in 1..Len(sent) : sent[i].status \in {400, 500}) => queueCalls = <<>>

\* a push has been enqueued once and answered 200
C6_Witness ==
    /\ ~EventTypeAbsent /\ headers["x-github-event"] = "push"
    /\ pc = "done"
    /\ Statuses = <<200>>
    /\ Len(queueCalls) = 1
    /\ queueCalls[1].name = "events"

\* C7: every failure response is text/plain and its body is the JSON
\* encoding of the message: of 'Webhooks not enabled' for the 500 of warn,
\* of the message passed to fatal for the 400.
C7_FailureBodyIsJsonMessage ==
    \A i \in 1..Len(sent) :
        /\ sent[i].status = 500 =>
              /\ sent[i].contentType = "text/plain"
              /\ sent[i].body = "\"Webhooks not enabled\""
        /\ sent[i].status = 400 =>
              /\ sent[i].contentType = "text/plain"
              /\ sent[i].body = "\"Missing signature or event type on GitHub webhook\""

\* C8: the URL of every enqueued item is '<events_url>/<delivery_id>', the
\* events URL being the repository's whenever the body has a repository
\* (also when that repository has no events_url) and the organization's
\* otherwise, each part written as a template literal writes it.
C8_TargetUrl ==
    \A i \in 1..Len(queueCalls) :
        /\ queueCalls[i].item.type = "event_trigger"
        /\ queueCalls[i].item.url = ExpectedEventsUrl \o "/" \o ExpectedDeliveryId

\* a repository without events_url next to an organization with one: the
\* organization's URL is not used
C8_Witness ==
    /\ body = BodyRepoNoUrl
    /\ Len(queueCalls) = 1
    /\ queueCalls[1].item.url = "undefined/d1"

\* C9: every enqueued item has requiresLock = false, and its context has
\* repoType = 'private' exactly when the body has a repository whose
\* private field is true; otherwise the context carries no flag.
C9_LockAndPrivacy ==
    \A i \in 1..Len(queueCalls) :
        LET item == queueCalls[i].item
        IN /\ item.requiresLock = FALSE
           /\ body = BodyPrivateRepo =>
                 ("repoType" \in DOMAIN item.context /\ item.context["repoType"] = "private")
           /\ body # BodyPrivateRepo => DOMAIN item.context = {}

\* an event of a private repository has been enqueued with the flag
C9_Witness ==
    /\ body = BodyPrivateRepo
    /\ Len(queueCalls) = 1
    /\ queueCalls[1].item.requiresLock = FALSE
    /\ queueCalls[1].item.context["repoType"] = "private"

C10_AtMostOneKnownStatus ==
    /\ Len(sent) <= 1
    /\ \A i \in 1..Len(sent) : sent[i].status \in {200, 400, 500}
    /\ (\E i \in 1..Len(sent) : sent[i].status \in {400, 500}) =>
          /\ pc = "done"
          /\ computedSignature = Undefined
          /\ event = Undefined
          /\ result = Undefined
          /\ queueCalls = <<>>
          /\ nextCalls = <<>>

\* C10: every request reaches a terminal outcome and stays there; the
\* handler writes at most one response, with status 200, 400 or 500; a 400
\* or 500 ends the handler with no signature computed, no body parsed and
\* nothing enqueued.
C10_TerminalOutcome ==
    /\ []C10_AtMostOneKnownStatus
    /\ [][Terminal => UNCHANGED vars]_vars
    /\ <>Terminal

\* a request without event type has been refused and the handler is done
C10_Witness ==
    /\ provider = "webhook"
    /\ EventTypeAbsent
    /\ pc = "done"
    /\ Statuses = <<400>>
    /\ event = Undefined

====
